---- MODULE Spec2Model ----
(***************************************************************************)
(* Model of app.py, the Streamlit invoice extractor.  One action is one    *)
(* run of the script from top to bottom (Streamlit re-runs the whole       *)
(* script on every upload change and on every button click).  Texts are    *)
(* sequences of one-character strings, so that clean_json_string and       *)
(* json.loads are computed character by character.  A character that a     *)
(* TLA+ string cannot hold is named by its code point, as "U+000B"; the    *)
(* backquote is named BQ.                                                  *)
(***************************************************************************)
EXTENDS Integers, Sequences, FiniteSets, TLC

(***************************************************************************)
(* Bounds                                                                  *)
(***************************************************************************)
\* Greatest number of button clicks in a behaviour.
MaxClicks == 2

(***************************************************************************)
(* Texts                                                                   *)
(***************************************************************************)
\* The backquote character (a TLA+ string cannot hold one).
BQ == "BQ"

\* The three-backquote fence and the opening fence with its language tag,
\* as tested by clean_json_string.
FENCE == <<BQ, BQ, BQ>>
FENCE_JSON == <<BQ, BQ, BQ, "j", "s", "o", "n">>

\* What str.strip() removes: the characters for which str.isspace() holds.
StripChars ==
    {" ", "\t", "\n", "\r", "\f", "U+000B", "U+001C", "U+001D", "U+001E",
     "U+001F", "U+0085", "U+00A0", "U+1680", "U+2000", "U+2001", "U+2002",
     "U+2003", "U+2004", "U+2005", "U+2006", "U+2007", "U+2008", "U+2009",
     "U+200A", "U+2028", "U+2029", "U+202F", "U+205F", "U+3000"}

StartsWith(s, p) == Len(s) >= Len(p) /\ SubSeq(s, 1, Len(p)) = p
EndsWith(s, p) == Len(s) >= Len(p) /\ SubSeq(s, Len(s) - Len(p) + 1, Len(s)) = p

RECURSIVE LStrip(_)
LStrip(s) == IF s # <<>> /\ Head(s) \in StripChars THEN LStrip(Tail(s)) ELSE s

RECURSIVE RStrip(_)
RStrip(s) ==
    IF s # <<>> /\ s[Len(s)] \in StripChars
    THEN RStrip(SubSeq(s, 1, Len(s) - 1))
    ELSE s

Strip(s) == RStrip(LStrip(s))

\* clean_json_string (app.py 39-48).
clean_json_string(json_string) ==
    LET s1 == IF StartsWith(json_string, FENCE_JSON)
              THEN SubSeq(json_string, 8, Len(json_string))
              ELSE json_string
        s2 == IF EndsWith(s1, FENCE) THEN SubSeq(s1, 1, Len(s1) - 3) ELSE s1
    IN  Strip(s2)

(***************************************************************************)
(* json.loads.  A parsed value is a tagged record: "str" and "num" carry    *)
(* their characters in s (a number is kept as its lexeme), "lit" is        *)
(* null/true/false/NaN/Infinity, "arr" carries its elements in a, "obj"    *)
(* its members in kv as a sequence of [k, v] in insertion order (a Python  *)
(* dict).                                                                  *)
(***************************************************************************)
JsonWs == {" ", "\t", "\n", "\r"}
Digits == {"0", "1", "2", "3", "4", "5", "6", "7", "8", "9"}
\* Characters json rejects unescaped inside a string (strict mode): the
\* code points below U+0020.
ControlChars ==
    {"\t", "\n", "\r", "\f", "U+0000", "U+0001", "U+0002", "U+0003", "U+0004",
     "U+0005", "U+0006", "U+0007", "U+0008", "U+000B", "U+000E", "U+000F",
     "U+0010", "U+0011", "U+0012", "U+0013", "U+0014", "U+0015", "U+0016",
     "U+0017", "U+0018", "U+0019", "U+001A", "U+001B", "U+001C", "U+001D",
     "U+001E", "U+001F"}

\* The hexadecimal digits, by value.
HexUpper ==
    <<"0", "1", "2", "3", "4", "5", "6", "7", "8", "9", "A", "B", "C", "D", "E",
      "F">>
HexLower ==
    <<"0", "1", "2", "3", "4", "5", "6", "7", "8", "9", "a", "b", "c", "d", "e",
      "f">>
IsHex(c) == \E n \in 1..16 : c \in {HexUpper[n], HexLower[n]}
HexVal(c) == (CHOOSE n \in 1..16 : c \in {HexUpper[n], HexLower[n]}) - 1

\* The printable ASCII characters, from U+0020 to U+007E.
Ascii ==
    <<" ", "!", "\"", "#", "$", "%", "&", "'", "(", ")", "*", "+",
      ",", "-", ".", "/", "0", "1", "2", "3", "4", "5", "6", "7",
      "8", "9", ":", ";", "<", "=", ">", "?", "@", "A", "B", "C",
      "D", "E", "F", "G", "H", "I", "J", "K", "L", "M", "N", "O",
      "P", "Q", "R", "S", "T", "U", "V", "W", "X", "Y", "Z", "[",
      "\\", "]", "^", "_", BQ, "a", "b", "c", "d", "e", "f", "g",
      "h", "i", "j", "k", "l", "m", "n", "o", "p", "q", "r", "s",
      "t", "u", "v", "w", "x", "y", "z", "{", "|", "}", "~">>

\* The name of a code point: upper-case hexadecimal, four digits at least.
RECURSIVE HexName(_, _)
HexName(code, width) ==
    IF code = 0 /\ width <= 0 THEN ""
    ELSE HexName(code \div 16, width - 1) \o HexUpper[(code % 16) + 1]

\* The character of a code point.
CharOf(code) ==
    CASE code >= 32 /\ code <= 126 -> Ascii[code - 31]
      [] code = 9 -> "\t"
      [] code = 10 -> "\n"
      [] code = 12 -> "\f"
      [] code = 13 -> "\r"
      [] OTHER -> "U+" \o HexName(code, 4)

JStr(s) == [t |-> "str", s |-> s]
JNum(s) == [t |-> "num", s |-> s]
JLit(s) == [t |-> "lit", s |-> s]
JArr(a) == [t |-> "arr", a |-> a]
JObj(kv) == [t |-> "obj", kv |-> kv]

L_null == <<"n", "u", "l", "l">>
L_true == <<"t", "r", "u", "e">>
L_false == <<"f", "a", "l", "s", "e">>
L_NaN == <<"N", "a", "N">>
L_Infinity == <<"I", "n", "f", "i", "n", "i", "t", "y">>
L_NegInfinity == <<"-">> \o L_Infinity
JNull == JLit(L_null)

\* The outcome of a parsing step: a value and the position after it, or the
\* exception raised (err).  json.JSONDecodeError is the failure of the
\* grammar; int() raises ValueError and deep nesting RecursionError.
ParseRaise(e) == [ok |-> FALSE, v |-> JNull, i |-> 0, err |-> e]
ParseFail == ParseRaise("JSONDecodeError")
ParseOk(v, i) == [ok |-> TRUE, v |-> v, i |-> i, err |-> "none"]

\* sys.get_int_max_str_digits(): the most digits int() converts.
MaxStrDigits == 4300

\* The nested arrays and objects json.loads can enter at line 176 before
\* the interpreter raises RecursionError: sys.getrecursionlimit() (1000)
\* less the frames in use there, taken for the script run as the main
\* module, where line 176 is at module level and only json.loads, decode
\* and raw_decode are above it (the frames of a script runner lower it by
\* their number).
RecursionRoom == 995

At(s, i) == IF i >= 1 /\ i <= Len(s) THEN s[i] ELSE "EOF"
Match(s, i, lit) == i + Len(lit) - 1 <= Len(s) /\ SubSeq(s, i, i + Len(lit) - 1) = lit

RECURSIVE SkipWs(_, _)
SkipWs(s, i) == IF At(s, i) \in JsonWs THEN SkipWs(s, i + 1) ELSE i

\* The position after the digits that start at i.
SkipDigits(s, i) ==
    CHOOSE j \in i..(Len(s) + 1) :
        At(s, j) \notin Digits /\ \A k \in i..(j - 1) : s[k] \in Digits

\* The character a one-letter escape stands for.
Unescape(c) ==
    CASE c = "n" -> "\n"
      [] c = "t" -> "\t"
      [] c = "r" -> "\r"
      [] c = "f" -> "\f"
      [] c = "b" -> CharOf(8)
      [] OTHER -> c

\* Four hexadecimal digits at i, and the code point they write.
IsHex4(s, i) == \A n \in 0..3 : IsHex(At(s, i + n))
Hex4(s, i) ==
    HexVal(s[i]) * 4096 + HexVal(s[i + 1]) * 256 + HexVal(s[i + 2]) * 16
    + HexVal(s[i + 3])

\* A \uXXXX escape at i (the backslash): the next escape completes a
\* surrogate pair when this one is a high surrogate and that one a low one.
IsUnicodeEscape(s, i) == At(s, i) = "\\" /\ At(s, i + 1) = "u" /\ IsHex4(s, i + 2)
IsHighSurrogate(code) == code >= 55296 /\ code <= 56319
IsLowSurrogate(code) == code >= 56320 /\ code <= 57343
IsSurrogatePair(s, i) ==
    /\ IsHighSurrogate(Hex4(s, i + 2))
    /\ IsUnicodeEscape(s, i + 6)
    /\ IsLowSurrogate(Hex4(s, i + 8))
JoinSurrogates(high, low) == 65536 + (high - 55296) * 1024 + (low - 56320)

\* The body of a string, from the character after the opening quote.
RECURSIVE ScanString(_, _, _)
ScanString(s, i, acc) ==
    LET c == At(s, i) IN
    IF c = "EOF" THEN ParseFail
    ELSE IF c = "\"" THEN ParseOk(JStr(acc), i + 1)
    ELSE IF c = "\\" THEN
        IF At(s, i + 1) \in {"\"", "\\", "/", "b", "n", "t", "r", "f"}
        THEN ScanString(s, i + 2, Append(acc, Unescape(At(s, i + 1))))
        ELSE IF ~IsUnicodeEscape(s, i) THEN ParseFail
        ELSE IF IsSurrogatePair(s, i)
        THEN ScanString(s, i + 12,
                        Append(acc, CharOf(JoinSurrogates(Hex4(s, i + 2),
                                                          Hex4(s, i + 8)))))
        ELSE ScanString(s, i + 6, Append(acc, CharOf(Hex4(s, i + 2))))
    ELSE IF c \in ControlChars THEN ParseFail
    ELSE ScanString(s, i + 1, Append(acc, c))

\* A number: optional minus, an integer part with no leading zero, an
\* optional fraction, an optional exponent; the longest such prefix.  A
\* lexeme without fraction and exponent is converted by int(), which
\* refuses more than MaxStrDigits digits.
ScanNumber(s, i) ==
    LET j0 == IF At(s, i) = "-" THEN i + 1 ELSE i
        j1 == IF At(s, j0) = "0" THEN j0 + 1 ELSE SkipDigits(s, j0)
        j2 == IF At(s, j1) = "." /\ At(s, j1 + 1) \in Digits
              THEN SkipDigits(s, j1 + 1) ELSE j1
        e0 == IF At(s, j2 + 1) \in {"+", "-"} THEN j2 + 2 ELSE j2 + 1
        j3 == IF At(s, j2) \in {"e", "E"} /\ At(s, e0) \in Digits
              THEN SkipDigits(s, e0) ELSE j2
    IN  IF At(s, j0) \notin Digits THEN ParseFail
        ELSE IF j3 = j1 /\ j1 - j0 > MaxStrDigits THEN ParseRaise("ValueError")
        ELSE ParseOk(JNum(SubSeq(s, i, j3 - 1)), j3)

\* dict semantics: a repeated key keeps its first position and its last value.
Put(kv, k, v) ==
    IF \E n \in 1..Len(kv) : kv[n].k = k
    THEN [n \in 1..Len(kv) |-> IF kv[n].k = k THEN [k |-> k, v |-> v] ELSE kv[n]]
    ELSE Append(kv, [k |-> k, v |-> v])

RECURSIVE ParseValue(_, _, _)
RECURSIVE ParseMembers(_, _, _, _)
RECURSIVE ParseElements(_, _, _, _)

\* Members of an object, from the opening quote of a key.
ParseMembers(s, i, acc, room) ==
    IF At(s, i) # "\"" THEN ParseFail
    ELSE
    LET key == ScanString(s, i + 1, <<>>) IN
    IF ~key.ok THEN key
    ELSE
    LET j == SkipWs(s, key.i) IN
    IF At(s, j) # ":" THEN ParseFail
    ELSE
    LET val == ParseValue(s, SkipWs(s, j + 1), room) IN
    IF ~val.ok THEN val
    ELSE
    LET acc2 == Put(acc, key.v.s, val.v)
        j2   == SkipWs(s, val.i)
    IN  IF At(s, j2) = "}" THEN ParseOk(JObj(acc2), j2 + 1)
        ELSE IF At(s, j2) = ","
        THEN ParseMembers(s, SkipWs(s, j2 + 1), acc2, room)
        ELSE ParseFail

\* Elements of an array, from the first character of an element.
ParseElements(s, i, acc, room) ==
    LET val == ParseValue(s, i, room) IN
    IF ~val.ok THEN val
    ELSE
    LET acc2 == Append(acc, val.v)
        j2   == SkipWs(s, val.i)
    IN  IF At(s, j2) = "]" THEN ParseOk(JArr(acc2), j2 + 1)
        ELSE IF At(s, j2) = ","
        THEN ParseElements(s, SkipWs(s, j2 + 1), acc2, room)
        ELSE ParseFail

\* A value at i; room is the number of nested arrays and objects that can
\* still be entered.
ParseValue(s, i, room) ==
    LET c == At(s, i) IN
    IF c = "\"" THEN ScanString(s, i + 1, <<>>)
    ELSE IF c \in {"{", "["} /\ room = 0 THEN ParseRaise("RecursionError")
    ELSE IF c = "{" THEN
        LET j == SkipWs(s, i + 1) IN
        IF At(s, j) = "}" THEN ParseOk(JObj(<<>>), j + 1)
        ELSE ParseMembers(s, j, <<>>, room - 1)
    ELSE IF c = "[" THEN
        LET j == SkipWs(s, i + 1) IN
        IF At(s, j) = "]" THEN ParseOk(JArr(<<>>), j + 1)
        ELSE ParseElements(s, j, <<>>, room - 1)
    ELSE IF Match(s, i, L_null) THEN ParseOk(JLit(L_null), i + 4)
    ELSE IF Match(s, i, L_true) THEN ParseOk(JLit(L_true), i + 4)
    ELSE IF Match(s, i, L_false) THEN ParseOk(JLit(L_false), i + 5)
    ELSE IF Match(s, i, L_NaN) THEN ParseOk(JLit(L_NaN), i + 3)
    ELSE IF Match(s, i, L_Infinity) THEN ParseOk(JLit(L_Infinity), i + 8)
    ELSE IF Match(s, i, L_NegInfinity) THEN ParseOk(JLit(L_NegInfinity), i + 9)
    ELSE ScanNumber(s, i)

\* json.loads: one value, surrounded by optional whitespace, and nothing
\* else.  ok = FALSE is the exception named by err, raised where the scan
\* meets it first.
json_loads(s) ==
    LET r == ParseValue(s, SkipWs(s, 1), RecursionRoom) IN
    IF ~r.ok THEN r
    ELSE IF SkipWs(s, r.i) = Len(s) + 1 THEN r
    ELSE ParseFail

(***************************************************************************)
(* Key names and the texts the external model may return                   *)
(***************************************************************************)
K_invoice_id == <<"i", "n", "v", "o", "i", "c", "e", "_", "i", "d">>
K_invoice_date ==
    <<"i", "n", "v", "o", "i", "c", "e", "_", "d", "a", "t", "e">>
K_due_date == <<"d", "u", "e", "_", "d", "a", "t", "e">>
K_seller_name == <<"s", "e", "l", "l", "e", "r", "_", "n", "a", "m", "e">>
K_seller_address ==
    <<"s", "e", "l", "l", "e", "r", "_", "a", "d", "d", "r", "e", "s", "s">>
K_customer_name ==
    <<"c", "u", "s", "t", "o", "m", "e", "r", "_", "n", "a", "m", "e">>
K_customer_address ==
    <<"c", "u", "s", "t", "o", "m", "e", "r", "_", "a", "d", "d", "r", "e", "s", "s">>
K_subtotal == <<"s", "u", "b", "t", "o", "t", "a", "l">>
K_total_tax == <<"t", "o", "t", "a", "l", "_", "t", "a", "x">>
K_total_amount ==
    <<"t", "o", "t", "a", "l", "_", "a", "m", "o", "u", "n", "t">>
K_line_items == <<"l", "i", "n", "e", "_", "i", "t", "e", "m", "s">>
K_description == <<"d", "e", "s", "c", "r", "i", "p", "t", "i", "o", "n">>
K_quantity == <<"q", "u", "a", "n", "t", "i", "t", "y">>
K_unit_price == <<"u", "n", "i", "t", "_", "p", "r", "i", "c", "e">>
K_line_total == <<"l", "i", "n", "e", "_", "t", "o", "t", "a", "l">>

\* The ten scalar keys of an InvoiceRecord.
ScalarKeys ==
    {K_invoice_id, K_invoice_date, K_due_date, K_seller_name, K_seller_address,
     K_customer_name, K_customer_address, K_subtotal, K_total_tax,
     K_total_amount}

NA == <<"N", "/", "A">>
V_INV1 == <<"I", "N", "V", "-", "1">>
V_DATE == <<"2", "0", "2", "3", "-", "1", "0", "-", "2", "6">>
V_ACME == <<"A", "c", "m", "e">>
V_CITY == <<"1", " ", "R", "d">>
V_100 == <<"1", "0", "0">>
V_8 == <<"8">>
V_108 == <<"1", "0", "8">>
V_1 == <<"1">>
V_CLOUD == <<"C", "l", "o", "u", "d">>
V_HELP == <<"H", "e", "l", "p">>

\* JSON text, written the way json.dumps separates members.
Q(s) == <<"\"">> \o s \o <<"\"">>
Pair(k, v) == Q(k) \o <<":", " ">> \o v
Sep == <<",", " ">>
Braces(members) == <<"{">> \o members \o <<"}">>
Brackets(elements) == <<"[">> \o elements \o <<"]">>

LineItemText(d, q, u, t) ==
    Braces(Pair(K_description, Q(d)) \o Sep \o Pair(K_quantity, Q(q)) \o Sep
           \o Pair(K_unit_price, Q(u)) \o Sep \o Pair(K_line_total, Q(t)))

\* The specification's example: one key, nine keys and line_items absent.
T_ONE_KEY == Braces(Pair(K_invoice_id, Q(V_INV1)))

\* A complete record: ten scalar keys and two line items.
T_FULL ==
    Braces(Pair(K_invoice_id, Q(V_INV1)) \o Sep
           \o Pair(K_invoice_date, Q(V_DATE)) \o Sep
           \o Pair(K_due_date, Q(NA)) \o Sep
           \o Pair(K_seller_name, Q(V_ACME)) \o Sep
           \o Pair(K_seller_address, Q(V_CITY)) \o Sep
           \o Pair(K_customer_name, Q(V_ACME)) \o Sep
           \o Pair(K_customer_address, Q(NA)) \o Sep
           \o Pair(K_subtotal, Q(V_100)) \o Sep
           \o Pair(K_total_tax, Q(V_8)) \o Sep
           \o Pair(K_total_amount, Q(V_108)) \o Sep
           \o Pair(K_line_items,
                   Brackets(LineItemText(V_CLOUD, V_1, V_100, V_100) \o Sep
                            \o LineItemText(V_HELP, V_1, V_8, V_8))))

\* line_items present and null.
T_NULL_ITEMS ==
    Braces(Pair(K_invoice_id, Q(V_INV1)) \o Sep \o Pair(K_line_items, L_null))

\* line_items a list of a dict and a number, which makes no table.
T_MIXED_ITEMS ==
    Braces(Pair(K_invoice_id, Q(V_INV1)) \o Sep
           \o Pair(K_line_items,
                   Brackets(Braces(Pair(K_description, Q(V_CLOUD))) \o Sep
                            \o <<"8">>)))

T_NOT_JSON ==
    <<"n", "o", "t", " ", "j", "s", "o", "n", " ", "a", "t", " ", "a", "l", "l">>
T_ARRAY == <<"[", "1", ",", " ", "2", "]">>
T_STRING == Q(<<"a", "b", "c">>)
T_NUMBER == <<"5">>
\* A key written with a \u escape, and a number too small for a float.
T_ESCAPED ==
    Braces(Q(<<"\\", "u", "0", "0", "6", "9", "d">>) \o <<":", " ">> \o Q(V_INV1)
           \o Sep \o Pair(K_line_items, <<"1", "e", "-", "4", "0", "0">>))
T_NULL == L_null
T_EMPTY == <<>>

\* JSON texts whose top-level value is an object.
ObjectTexts == {T_ONE_KEY, T_FULL, T_NULL_ITEMS, T_ESCAPED, T_MIXED_ITEMS}
\* JSON texts whose top-level value is not an object.
NonObjectTexts == {T_ARRAY, T_STRING, T_NUMBER, T_NULL}

\* The ways a model wraps its JSON: [pre, post] put around the text.
NL == <<"\n">>
W_JSON_FENCE == [pre |-> FENCE_JSON \o NL, post |-> NL \o FENCE]
W_JSON_FENCE_NL == [pre |-> FENCE_JSON \o NL, post |-> NL \o FENCE \o NL]
W_LEADING_NL == [pre |-> NL \o FENCE_JSON \o NL, post |-> NL \o FENCE]
W_BARE_FENCE == [pre |-> FENCE \o NL, post |-> NL \o FENCE]
\* Whitespace other than the newline: a vertical tab, a no-break space.
W_JSON_FENCE_VT ==
    [pre |-> FENCE_JSON \o <<"U+000B">>, post |-> <<"U+00A0">> \o FENCE]
\* A leading fence with an optional language tag, a trailing fence, and
\* whitespace around them.
FenceWrappers ==
    {W_JSON_FENCE, W_JSON_FENCE_NL, W_LEADING_NL, W_BARE_FENCE,
     W_JSON_FENCE_VT}
Wrap(w, text) == w.pre \o text \o w.post

\* Usage counters of a response (usage_metadata): prompt, completion, total.
Usage(p, c) == [prompt |-> p, completion |-> c, total |-> p + c]
UsageOf(text) == Usage(7, Len(text))

\* What the client library does in one get_gemini_response: the constructor
\* genai.GenerativeModel raises (line 58, no call is made), the call
\* model.generate_content (or reading response.text) raises, or the call
\* returns a text with its usage counters.
ConstructorRaised == [raised |-> TRUE, called |-> FALSE]
Raised == [raised |-> TRUE, called |-> TRUE]
Returned(text) ==
    [raised |-> FALSE, called |-> TRUE, text |-> text, usage |-> UsageOf(text)]

ResponseTexts ==
    ObjectTexts \cup NonObjectTexts \cup {T_NOT_JSON, T_EMPTY}
    \cup {Wrap(w, T_ONE_KEY) : w \in FenceWrappers}
    \cup {Wrap(W_JSON_FENCE, T_EMPTY)}

ModelOutcomes ==
    {ConstructorRaised, Raised} \cup {Returned(t) : t \in ResponseTexts}

(***************************************************************************)
(* Uploaded documents                                                      *)
(***************************************************************************)
\* Python's None.
None == [none |-> TRUE]

PDF == "application/pdf"
PNG == "image/png"

\* An uploaded file: its media type, whether its bytes are readable, and the
\* page bitmaps a correct decoder yields from it, in page order.
Doc(name, type, readable, pages) ==
    [name |-> name, type |-> type, readable |-> readable, pages |-> pages]

Docs ==
    {Doc("a.pdf", PDF, TRUE, <<"a1", "a2", "a3">>),
     Doc("empty.pdf", PDF, TRUE, <<>>),
     Doc("corrupt.pdf", PDF, FALSE, <<>>),
     Doc("p.png", PNG, TRUE, <<"p1">>),
     Doc("corrupt.png", PNG, FALSE, <<>>)}

\* pdf2image.convert_from_bytes: raises without poppler (pop) or on corrupt
\* bytes, else returns one image per page in page order.
convert_from_bytes(doc, pop) ==
    IF pop /\ doc.readable
    THEN [raised |-> FALSE, images |-> doc.pages]
    ELSE [raised |-> TRUE, images |-> <<>>]

\* PIL.Image.open: raises on unreadable bytes, else the one image.
Image_open(doc) ==
    IF doc.readable
    THEN [raised |-> FALSE, image |-> doc.pages[1]]
    ELSE [raised |-> TRUE, image |-> None]

\* FreshImageList, were the list kept from run to run (a session cache).
FreshImageList_kept(previous) == IF previous.bound THEN previous.list ELSE <<>>

\* Line 85: the list every run starts from, whatever the last run left
\* (previous: whether that run bound image_list, and the list if it did).
FreshImageList(previous) == <<>>

\* What the page shows in one run: the preview image, the messages in the
\* order they are emitted, the two columns of disabled text inputs, the
\* line-item table, the raw-response text area, and the usage counters (no
\* st.* call ever receives them).
Blank ==
    [preview |-> None, messages |-> <<>>, col1 |-> <<>>, col2 |-> <<>>,
     table |-> None, raw |-> None, usage |-> None]

\* LoadDocument, were a failed decode to leave what it had rendered in the
\* list and let the run go on.
LoadDocument_partial(fresh, doc, pop) ==
    IF doc.type = PDF THEN
        LET c == convert_from_bytes(doc, pop) IN
        IF c.raised \/ c.images = <<>>
        THEN [loaded |-> TRUE, image_list |-> fresh \o <<"partial">>,
              display |-> [Blank EXCEPT !.messages =
                               <<"pdf_error", "poppler_warning">>]]
        ELSE [loaded |-> TRUE, image_list |-> fresh \o c.images,
              display |-> [Blank EXCEPT !.preview = c.images[1],
                                        !.messages = <<"pdf_info">>]]
    ELSE
        LET o == Image_open(doc) IN
        IF o.raised
        THEN [loaded |-> TRUE, image_list |-> fresh \o <<"partial">>,
              display |-> [Blank EXCEPT !.messages = <<"exception">>]]
        ELSE [loaded |-> TRUE, image_list |-> Append(fresh, o.image),
              display |-> [Blank EXCEPT !.preview = o.image]]

\* Lines 86-104: the upload dispatch on the fresh list of line 85.  loaded
\* is FALSE when the run ends there (st.stop() after a PDF failure, the
\* uncaught exception of Image.open).
LoadDocument(fresh, doc, pop) ==
    IF doc.type = PDF THEN
        LET c == convert_from_bytes(doc, pop) IN
        IF c.raised
        THEN [loaded |-> FALSE, image_list |-> fresh,
              display |-> [Blank EXCEPT !.messages =
                               <<"pdf_error", "poppler_warning">>]]
        ELSE IF c.images = <<>>
        \* images[0] raises IndexError after the extend of nothing
        THEN [loaded |-> FALSE, image_list |-> fresh \o c.images,
              display |-> [Blank EXCEPT !.messages =
                               <<"pdf_error", "poppler_warning">>]]
        ELSE [loaded |-> TRUE, image_list |-> fresh \o c.images,
              display |-> [Blank EXCEPT !.preview = c.images[1],
                                        !.messages = <<"pdf_info">>]]
    ELSE
        LET o == Image_open(doc) IN
        IF o.raised
        THEN [loaded |-> FALSE, image_list |-> fresh,
              display |-> [Blank EXCEPT !.messages = <<"exception">>]]
        ELSE [loaded |-> TRUE, image_list |-> Append(fresh, o.image),
              display |-> [Blank EXCEPT !.preview = o.image]]

(***************************************************************************)
(* The extraction client                                                   *)
(***************************************************************************)
\* The prompt text of lines 109-162.
input_prompt == "input_prompt"

\* BuildContent, were the images put in reverse order.
BuildContent_reversed(prompt, image_list) ==
    <<prompt>> \o [n \in 1..Len(image_list) |->
                       image_list[Len(image_list) + 1 - n]]

\* Lines 63-64: the content list.
BuildContent(prompt, image_list) == <<prompt>> \o image_list

\* A string as a value of the script.
Text(s) == [text |-> s]

\* CallsMade, were a raising call tried once more.
CallsMade_retry(outcome) ==
    IF ~outcome.called THEN 0 ELSE IF outcome.raised THEN 2 ELSE 1

\* Number of generate_content calls get_gemini_response makes (line 67):
\* one, unless the constructor raised before it.
CallsMade(outcome) == IF outcome.called THEN 1 ELSE 0

\* get_gemini_response (lines 51-75): the content submitted, the number of
\* calls made, whether st.error was shown, and the value returned.
get_gemini_response(prompt, image_list, outcome) ==
    [content |-> IF outcome.called THEN BuildContent(prompt, image_list)
                 ELSE <<>>,
     calls |-> CallsMade(outcome),
     error |-> outcome.raised,
     ret |-> IF outcome.raised THEN None
             ELSE Text(clean_json_string(outcome.text))]

(***************************************************************************)
(* The button handler                                                      *)
(***************************************************************************)
\* Python truthiness of the value get_gemini_response returns.
TruthyText(r) == r # None /\ r.text # <<>>

\* The first position of s holding a character of set, Len(s) + 1 if none.
RECURSIVE IndexOf(_, _, _)
IndexOf(s, set, i) ==
    IF i > Len(s) \/ s[i] \in set THEN i ELSE IndexOf(s, set, i + 1)

\* The parts of a number lexeme: the mantissa (without its sign), its digits
\* before and after the point, and the exponent's sign and digits.
Mantissa(s) ==
    SubSeq(s, IF Head(s) = "-" THEN 2 ELSE 1, IndexOf(s, {"e", "E"}, 1) - 1)
IntDigits(s) == SubSeq(Mantissa(s), 1, IndexOf(Mantissa(s), {"."}, 1) - 1)
FracDigits(s) ==
    SubSeq(Mantissa(s), IndexOf(Mantissa(s), {"."}, 1) + 1, Len(Mantissa(s)))
ExpNegative(s) == At(s, IndexOf(s, {"e", "E"}, 1) + 1) = "-"
ExpDigits(s) ==
    SubSeq(s, IndexOf(s, {"e", "E"}, 1)
              + (IF At(s, IndexOf(s, {"e", "E"}, 1) + 1) \in {"+", "-"}
                 THEN 2 ELSE 1),
           Len(s))

\* The value of a digit sequence, or cap when the value is greater.
RECURSIVE DigitsValue(_, _, _)
DigitsValue(d, acc, cap) ==
    IF d = <<>> THEN acc
    ELSE DigitsValue(Tail(d),
                     IF acc * 10 + HexVal(Head(d)) > cap THEN cap
                     ELSE acc * 10 + HexVal(Head(d)),
                     cap)

\* The exponent of a lexeme, exact up to Len(s) + 325 either way and held
\* at that bound beyond it.  The weight of the first non-zero digit of the
\* mantissa is within Len(s) of zero, so at the bound and beyond it the
\* sign of the exponent alone decides: the float is 0.0 when it is negative
\* and is not 0.0 when it is positive.
Exponent(s) ==
    IF ExpNegative(s) THEN 0 - DigitsValue(ExpDigits(s), 0, Len(s) + 325)
    ELSE DigitsValue(ExpDigits(s), 0, Len(s) + 325)

\* Whether 0.a <= 0.b for digit sequences a and b.
RECURSIVE LeqDigits(_, _)
LeqDigits(a, b) ==
    IF a = <<>> THEN TRUE
    ELSE IF b = <<>> THEN \A n \in 1..Len(a) : a[n] = "0"
    ELSE IF Head(a) = Head(b) THEN LeqDigits(Tail(a), Tail(b))
    ELSE HexVal(Head(a)) < HexVal(Head(b))

\* The digits of 2^-1075 = 5^1075 * 10^-1075, half the least positive float:
\* 2.47...e-324.  float() rounds to nearest, ties to even, so a decimal
\* is read as 0.0 exactly when it is at most this.
HalfLeastFloat ==
    <<"2", "4", "7", "0", "3", "2", "8", "2", "2", "9", "2", "0", "6", "2", "3", "2",
      "7", "2", "0", "8", "8", "2", "8", "4", "3", "9", "6", "4", "3", "4", "1", "1",
      "0", "6", "8", "6", "1", "8", "2", "5", "2", "9", "9", "0", "1", "3", "0", "7",
      "1", "6", "2", "3", "8", "2", "2", "1", "2", "7", "9", "2", "8", "4", "1", "2",
      "5", "0", "3", "3", "7", "7", "5", "3", "6", "3", "5", "1", "0", "4", "3", "7",
      "5", "9", "3", "2", "6", "4", "9", "9", "1", "8", "1", "8", "0", "8", "1", "7",
      "9", "9", "6", "1", "8", "9", "8", "9", "8", "2", "8", "2", "3", "4", "7", "7",
      "2", "2", "8", "5", "8", "8", "6", "5", "4", "6", "3", "3", "2", "8", "3", "5",
      "5", "1", "7", "7", "9", "6", "9", "8", "9", "8", "1", "9", "9", "3", "8", "7",
      "3", "9", "8", "0", "0", "5", "3", "9", "0", "9", "3", "9", "0", "6", "3", "1",
      "5", "0", "3", "5", "6", "5", "9", "5", "1", "5", "5", "7", "0", "2", "2", "6",
      "3", "9", "2", "2", "9", "0", "8", "5", "8", "3", "9", "2", "4", "4", "9", "1",
      "0", "5", "1", "8", "4", "4", "3", "5", "9", "3", "1", "8", "0", "2", "8", "4",
      "9", "9", "3", "6", "5", "3", "6", "1", "5", "2", "5", "0", "0", "3", "1", "9",
      "3", "7", "0", "4", "5", "7", "6", "7", "8", "2", "4", "9", "2", "1", "9", "3",
      "6", "5", "6", "2", "3", "6", "6", "9", "8", "6", "3", "6", "5", "8", "4", "8",
      "0", "7", "5", "7", "0", "0", "1", "5", "8", "5", "7", "6", "9", "2", "6", "9",
      "9", "0", "3", "7", "0", "6", "3", "1", "1", "9", "2", "8", "2", "7", "9", "5",
      "5", "8", "5", "5", "1", "3", "3", "2", "9", "2", "7", "8", "3", "4", "3", "3",
      "8", "4", "0", "9", "3", "5", "1", "9", "7", "8", "0", "1", "5", "5", "3", "1",
      "2", "4", "6", "5", "9", "7", "2", "6", "3", "5", "7", "9", "5", "7", "4", "6",
      "2", "2", "7", "6", "6", "4", "6", "5", "2", "7", "2", "8", "2", "7", "2", "2",
      "0", "0", "5", "6", "3", "7", "4", "0", "0", "6", "4", "8", "5", "4", "9", "9",
      "9", "7", "7", "0", "9", "6", "5", "9", "9", "4", "7", "0", "4", "5", "4", "0",
      "2", "0", "8", "2", "8", "1", "6", "6", "2", "2", "6", "2", "3", "7", "8", "5",
      "7", "3", "9", "3", "4", "5", "0", "7", "3", "6", "3", "3", "9", "0", "0", "7",
      "9", "6", "7", "7", "6", "1", "9", "3", "0", "5", "7", "7", "5", "0", "6", "7",
      "4", "0", "1", "7", "6", "3", "2", "4", "6", "7", "3", "6", "0", "0", "9", "6",
      "8", "9", "5", "1", "3", "4", "0", "5", "3", "5", "5", "3", "7", "4", "5", "8",
      "5", "1", "6", "6", "6", "1", "1", "3", "4", "2", "2", "3", "7", "6", "6", "6",
      "7", "8", "6", "0", "4", "1", "6", "2", "1", "5", "9", "6", "8", "0", "4", "6",
      "1", "9", "1", "4", "4", "6", "7", "2", "9", "1", "8", "4", "0", "3", "0", "0",
      "5", "3", "0", "0", "5", "7", "5", "3", "0", "8", "4", "9", "0", "4", "8", "7",
      "6", "5", "3", "9", "1", "7", "1", "1", "3", "8", "6", "5", "9", "1", "6", "4",
      "6", "2", "3", "9", "5", "2", "4", "9", "1", "2", "6", "2", "3", "6", "5", "3",
      "8", "8", "1", "8", "7", "9", "6", "3", "6", "2", "3", "9", "3", "7", "3", "2",
      "8", "0", "4", "2", "3", "8", "9", "1", "0", "1", "8", "6", "7", "2", "3", "4",
      "8", "4", "9", "7", "6", "6", "8", "2", "3", "5", "0", "8", "9", "8", "6", "3",
      "3", "8", "8", "5", "8", "7", "9", "2", "5", "6", "2", "8", "3", "0", "2", "7",
      "5", "5", "9", "9", "5", "6", "5", "7", "5", "2", "4", "4", "5", "5", "5", "0",
      "7", "2", "5", "5", "1", "8", "9", "3", "1", "3", "6", "9", "0", "8", "3", "6",
      "2", "5", "4", "7", "7", "9", "1", "8", "6", "9", "4", "8", "6", "6", "7", "9",
      "9", "4", "9", "6", "8", "3", "2", "4", "0", "4", "9", "7", "0", "5", "8", "2",
      "1", "0", "2", "8", "5", "1", "3", "1", "8", "5", "4", "5", "1", "3", "9", "6",
      "2", "1", "3", "8", "3", "7", "7", "2", "2", "8", "2", "6", "1", "4", "5", "4",
      "3", "7", "6", "9", "3", "4", "1", "2", "5", "3", "2", "0", "9", "8", "5", "9",
      "1", "3", "2", "7", "6", "6", "7", "2", "3", "6", "3", "2", "8", "1", "2", "5">>

\* Whether float() of a lexeme with a fraction or an exponent is 0.0: its
\* digits d, the first non-zero one at position first with weight
\* 10^(intLen - first + exp).
FloatIsZero(d, first, intLen, exp) ==
    \/ first > Len(d)
    \/ intLen - first + exp < 0 - 324
    \/ /\ intLen - first + exp = 0 - 324
       /\ LeqDigits(SubSeq(d, first, Len(d)), HalfLeastFloat)

\* Whether the number json.loads makes of a lexeme is zero: an int (no
\* fraction, no exponent) when it has no non-zero digit, a float when
\* float() of the lexeme is 0.0.
IsZeroLexeme(s) ==
    IF \A n \in 1..Len(s) : s[n] \notin {".", "e", "E"}
    THEN \A n \in 1..Len(s) : s[n] \in {"-", "0"}
    ELSE FloatIsZero(IntDigits(s) \o FracDigits(s),
                     IndexOf(IntDigits(s) \o FracDigits(s), Digits \ {"0"}, 1),
                     Len(IntDigits(s)), Exponent(s))

\* Python truthiness of a parsed JSON value.
Truthy(v) ==
    CASE v.t = "str" -> v.s # <<>>
      [] v.t = "num" -> ~IsZeroLexeme(v.s)
      [] v.t = "lit" -> v.s \notin {L_null, L_false}
      [] v.t = "arr" -> v.a # <<>>
      [] v.t = "obj" -> v.kv # <<>>

HasKey(v, k) == \E n \in 1..Len(v.kv) : v.kv[n].k = k
Get(v, k) == v.kv[CHOOSE n \in 1..Len(v.kv) : v.kv[n].k = k].v

\* pandas.DataFrame(list) for a list that is not empty.  Its first element
\* decides how the rows are read: after a dict every element must be a
\* dict (the keys of each are taken), after a list every element must have
\* a length (a list, a dict or a string; a number, a boolean or null has
\* none), and after a scalar the elements are the cells of one column.
DataFrameOfListOk(a) ==
    CASE a[1].t = "obj" -> \A n \in 1..Len(a) : a[n].t = "obj"
      [] a[1].t = "arr" -> \A n \in 1..Len(a) : a[n].t \in {"arr", "obj", "str"}
      [] OTHER -> TRUE

\* pandas.DataFrame(value) for a truthy value: a list makes a table unless
\* its rows cannot be read; a string, a number or true raises; a dict raises
\* when all its values are scalars, when it mixes lists and dicts, or when
\* its lists differ in length.
DataFrameOk(v) ==
    CASE v.t = "arr" -> DataFrameOfListOk(v.a)
      [] v.t = "obj" ->
            LET vals == {v.kv[n].v : n \in 1..Len(v.kv)}
                arrs == {x \in vals : x.t = "arr"}
                objs == {x \in vals : x.t = "obj"}
            IN  /\ arrs \cup objs # {}
                /\ arrs = {} \/ objs = {}
                /\ \A x, y \in arrs : Len(x.a) = Len(y.a)
      [] OTHER -> FALSE

\* Lines 183-193: the key fields, split into two columns of text inputs.
KeyFields(v) == SelectSeq(v.kv, LAMBDA m : m.k # K_line_items)
MidPoint(fields) == (Len(fields) + 1) \div 2

\* ResponseGuard, were the guard missing.
ResponseGuard_always(r) == TRUE

\* The guard of line 173.
ResponseGuard(r) == TruthyText(r)

\* The part of the handler's result that lines 173-208 decide: the parsed
\* invoice_data (None when json.loads was not reached or raised), whether
\* json.loads was called, and the page.
Shown(data, wasParsed, d) ==
    [invoice_data |-> data, parsed |-> wasParsed, display |-> d]

AddMessage(d, m) == [d EXCEPT !.messages = @ \o <<m>>]

\* An except branch: st.error, then the text area with response_text.
ShowFailure(d, m, r) == [AddMessage(d, m) EXCEPT !.raw = r]

\* Lines 187-193: the text inputs of the two columns.
ShowFields(d, fields) ==
    [d EXCEPT !.col1 = SubSeq(fields, 1, MidPoint(fields)),
              !.col2 = SubSeq(fields, MidPoint(fields) + 1, Len(fields))]

\* Lines 196-201: the line-item table, the warning, or the DataFrame error.
ShowLineItems(v, r, d) ==
    IF HasKey(v, K_line_items) /\ Truthy(Get(v, K_line_items))
    THEN IF DataFrameOk(Get(v, K_line_items))
         THEN [d EXCEPT !.table = Get(v, K_line_items)]
         ELSE ShowFailure(d, "unexpected_error", r)
    ELSE AddMessage(d, "no_line_items_warning")

\* Lines 177-201, for the value json.loads returned.  On a value that is
\* not a dict, invoice_data.items() raises AttributeError after st.success.
ShowData(v, r, d) ==
    IF v.t # "obj"
    THEN ShowFailure(AddMessage(d, "success"), "unexpected_error", r)
    ELSE ShowLineItems(v, r, ShowFields(AddMessage(d, "success"), KeyFields(v)))

\* Lines 174-208, for the result of json.loads: a value, JSONDecodeError
\* (lines 203-205), or another exception (lines 206-208).
ShowParsed(p, r, d) ==
    IF p.ok
    THEN Shown(p.v, TRUE, ShowData(p.v, r, d))
    ELSE IF p.err = "JSONDecodeError"
    THEN Shown(None, TRUE, ShowFailure(d, "json_error", r))
    ELSE Shown(None, TRUE, ShowFailure(d, "unexpected_error", r))

\* Lines 173-208, for the value get_gemini_response returned.  (Were the
\* guard passed with None, json.loads(None) would raise TypeError into the
\* generic handler.)
ShowResponse(r, d) ==
    IF ~ResponseGuard(r) THEN Shown(None, FALSE, d)
    ELSE IF r = None THEN Shown(None, TRUE, ShowFailure(d, "unexpected_error", r))
    ELSE ShowParsed(json_loads(r.text), r, d)

\* The handler's result: what get_gemini_response did and what was shown.
Handled(g, outcome, shown) ==
    [content |-> g.content, calls |-> g.calls, outcome |-> outcome,
     ret |-> g.ret, invoice_data |-> shown.invoice_data,
     parsed |-> shown.parsed, display |-> shown.display]

\* Lines 171-208, given what get_gemini_response did (its st.error included).
AfterCall(g, outcome, d) ==
    Handled(g, outcome,
            ShowResponse(g.ret, IF g.error THEN AddMessage(d, "gemini_error")
                                ELSE d))

\* Lines 165-208: the run of the handler after a click.
ButtonHandler(image_list, outcome, d) ==
    IF image_list = <<>>
    THEN [content |-> <<>>, calls |-> 0, outcome |-> None, ret |-> None,
          invoice_data |-> None, parsed |-> FALSE,
          display |-> AddMessage(d, "no_images_warning")]
    ELSE AfterCall(get_gemini_response(input_prompt, image_list, outcome),
                   outcome, d)

(***************************************************************************)
(* State                                                                   *)
(***************************************************************************)
VARIABLES
    uploaded_file,  \* the file in the uploader (None: nothing uploaded)
    poppler,        \* the PDF renderer was available in the last run
    image_list,     \* the script's image_list at the end of the last run
                    \* (None: the run ended before line 85 bound it)
    button_shown,   \* the last run rendered the Extract button
    clicked,        \* the last run was started by a click of that button
    run_end,        \* where the last run ended
    content,        \* content submitted to the model in the last run
    response,       \* what the model did in the last run (None: no call)
    response_text,  \* value get_gemini_response returned in the last run
    invoice_data,   \* value json.loads returned in the last run
    parsed,         \* json.loads was called in the last run
    display,        \* what the page shows after the last run
    clicks,         \* button clicks so far
    calls,          \* generate_content calls so far
    remembered      \* one extraction (the n-th call), kept for comparison

vars ==
    <<uploaded_file, poppler, image_list, button_shown, clicked, run_end, content,
      response, response_text, invoice_data, parsed, display, clicks, calls,
      remembered>>

Init ==
    /\ uploaded_file = None
    /\ poppler = TRUE
    /\ image_list = <<>>
    /\ button_shown = FALSE
    /\ clicked = FALSE
    /\ run_end = "start"
    /\ content = <<>>
    /\ response = None
    /\ response_text = None
    /\ invoice_data = None
    /\ parsed = FALSE
    /\ display = Blank
    /\ clicks = 0
    /\ calls = 0
    /\ remembered = None

\* A run can be started by a click only when the button is on the page, and
\* the file in the uploader is then the one of the last run.
CanClick(doc) == button_shown /\ doc = uploaded_file /\ clicks < MaxClicks

\* What the last run left of image_list.
Previous ==
    IF run_end \in {"no_api_key", "configure_failed"}
    THEN [bound |-> FALSE, list |-> <<>>]
    ELSE [bound |-> TRUE, list |-> image_list]

NoCall ==
    /\ content' = <<>>
    /\ response' = None
    /\ response_text' = None
    /\ invoice_data' = None
    /\ parsed' = FALSE
    /\ calls' = calls
    /\ remembered' = remembered

\* A run that finds no api_key in the environment (lines 17-20): st.stop()
\* ends it before the page is built, so the uploader and the button are not
\* rendered, image_list is not bound and nothing is called.
RunNoApiKey(click) ==
    /\ click => (button_shown /\ clicks < MaxClicks)
    /\ uploaded_file' = None
    /\ poppler' = poppler
    /\ image_list' = None
    /\ button_shown' = FALSE
    /\ clicked' = click
    /\ run_end' = "no_api_key"
    /\ display' = [Blank EXCEPT !.messages = <<"api_key_error">>]
    /\ clicks' = IF click THEN clicks + 1 ELSE clicks
    /\ NoCall

\* A run in which genai.configure raises (lines 31-35): st.stop() ends it
\* at the same point of the page.
RunConfigureFailed(click) ==
    /\ click => (button_shown /\ clicks < MaxClicks)
    /\ uploaded_file' = None
    /\ poppler' = poppler
    /\ image_list' = None
    /\ button_shown' = FALSE
    /\ clicked' = click
    /\ run_end' = "configure_failed"
    /\ display' = [Blank EXCEPT !.messages = <<"configure_error">>]
    /\ clicks' = IF click THEN clicks + 1 ELSE clicks
    /\ NoCall

\* A run with no file in the uploader (lines 85-86, 209-210).
RunNoFile ==
    /\ uploaded_file' = None
    /\ poppler' = poppler
    /\ image_list' = FreshImageList(Previous)
    /\ button_shown' = FALSE
    /\ clicked' = FALSE
    /\ run_end' = "no_file"
    /\ display' = [Blank EXCEPT !.messages = <<"upload_info">>]
    /\ clicks' = clicks
    /\ NoCall

\* A run whose upload dispatch ends the script (lines 96-99, 102), whether
\* or not a click started the run.
RunDecodeFailed(doc, pop, click) ==
    /\ click => CanClick(doc)
    /\ \E l \in {LoadDocument(FreshImageList(Previous), doc, pop)} :
           /\ ~l.loaded
           /\ uploaded_file' = doc
           /\ poppler' = pop
           /\ image_list' = l.image_list
           /\ button_shown' = FALSE
           /\ clicked' = click
           /\ run_end' = "decode_failed"
           /\ display' = l.display
           /\ clicks' = IF click THEN clicks + 1 ELSE clicks
           /\ NoCall

\* A run that shows the preview and the button, not started by a click.
RunPreview(doc, pop) ==
    \E l \in {LoadDocument(FreshImageList(Previous), doc, pop)} :
        /\ l.loaded
        /\ uploaded_file' = doc
        /\ poppler' = pop
        /\ image_list' = l.image_list
        /\ button_shown' = TRUE
        /\ clicked' = FALSE
        /\ run_end' = "preview"
        /\ display' = l.display
        /\ clicks' = clicks
        /\ NoCall

\* A run started by a click that reaches the handler (lines 165-208).
RunExtract(doc, pop, outcome) ==
    /\ CanClick(doc)
    /\ \E l \in {LoadDocument(FreshImageList(Previous), doc, pop)} :
           /\ l.loaded
           /\ \E h \in {ButtonHandler(l.image_list, outcome, l.display)} :
                  /\ uploaded_file' = doc
                  /\ poppler' = pop
                  /\ image_list' = l.image_list
                  /\ button_shown' = TRUE
                  /\ clicked' = TRUE
                  /\ run_end' = IF l.image_list = <<>> THEN "no_images"
                                 ELSE IF h.calls = 0 THEN "client_failed"
                                 ELSE "extracted"
                  /\ content' = h.content
                  /\ response' = h.outcome
                  /\ response_text' = h.ret
                  /\ invoice_data' = h.invoice_data
                  /\ parsed' = h.parsed
                  /\ display' = h.display
                  /\ clicks' = clicks + 1
                  /\ calls' = calls + h.calls
                  /\ remembered' \in
                         {remembered} \cup
                         IF h.calls = 0 THEN {}
                         ELSE {[n |-> calls + 1, doc |-> doc,
                                outcome |-> outcome, content |-> h.content,
                                display |-> h.display]}

Next ==
    \/ \E click \in BOOLEAN : RunNoApiKey(click)
    \/ \E click \in BOOLEAN : RunConfigureFailed(click)
    \/ RunNoFile
    \/ \E doc \in Docs, pop, click \in BOOLEAN : RunDecodeFailed(doc, pop, click)
    \/ \E doc \in Docs, pop \in BOOLEAN : RunPreview(doc, pop)
    \/ \E doc \in Docs, pop \in BOOLEAN, outcome \in ModelOutcomes :
           RunExtract(doc, pop, outcome)

Spec == Init /\ [][Next]_vars

(***************************************************************************)
(* Vocabulary of the properties                                            *)
(***************************************************************************)
\* The last run called the model.
Extracted == run_end = "extracted"
\* The last run reached get_gemini_response and the constructor of the
\* client raised there, before any call.
ClientFailed == run_end = "client_failed"
\* The last run reached line 85 and left at least one page image.
HasPages == run_end \notin {"no_api_key", "configure_failed"} /\ image_list # <<>>
\* The last run called the model and the call returned a text.
TextReturned == Extracted /\ ~response.raised
\* The normalizer's view of the returned text: cleaned, then parsed.
Normalized(text) == json_loads(clean_json_string(text))
IsObject(p) == p.ok /\ p.v.t = "obj"
\* The messages of the page that report an error.
ErrorMessages ==
    {"api_key_error", "configure_error", "pdf_error", "exception",
     "gemini_error", "json_error", "unexpected_error"}
ErrorsShown ==
    {display.messages[n] : n \in 1..Len(display.messages)} \cap ErrorMessages
SuccessShown == \E n \in 1..Len(display.messages) : display.messages[n] = "success"
\* Decoding the upload fails: unreadable bytes, or a PDF without its
\* renderer or without pages.
DecodeFails(doc, pop) ==
    \/ ~doc.readable
    \/ doc.type = PDF /\ (~pop \/ doc.pages = <<>>)

(***************************************************************************)
(* C1                                                                      *)
(***************************************************************************)
\* C1: when the returned text, cleaned, parses to a JSON object, the record
\* handed to the page holds all ten scalar keys, "N/A" for each key the
\* model omitted, and line_items as a sequence, empty when the model omitted
\* it or gave null.
C1_RecordHasAllKeys ==
    (TextReturned /\ IsObject(Normalized(response.text))) =>
        /\ invoice_data # None
        /\ invoice_data.t = "obj"
        /\ \A k \in ScalarKeys :
              /\ HasKey(invoice_data, k)
              /\ ~HasKey(Normalized(response.text).v, k) =>
                     Get(invoice_data, k) = JStr(NA)
        /\ HasKey(invoice_data, K_line_items)
        /\ Get(invoice_data, K_line_items).t = "arr"
        /\ (\/ ~HasKey(Normalized(response.text).v, K_line_items)
            \/ Get(Normalized(response.text).v, K_line_items) = JNull)
               => Get(invoice_data, K_line_items) = JArr(<<>>)

(***************************************************************************)
(* C2                                                                      *)
(***************************************************************************)
\* C2: when the call returned a text and the text does not normalize to a
\* JSON object, the returned text is shown for inspection; no returned text,
\* the empty one included, ends the request with neither a record nor the
\* raw text shown.
C2_RawTextShownOnFailure ==
    TextReturned =>
        /\ ~IsObject(Normalized(response.text)) =>
               /\ display.raw # None
               /\ display.raw.text \in
                      {response.text, clean_json_string(response.text)}
        /\ invoice_data # None \/ display.raw # None

(***************************************************************************)
(* C3                                                                      *)
(***************************************************************************)
\* C3: when the cleaned text is not valid JSON, or is valid JSON whose
\* top-level value is not an object, the request reports the malformed
\* response error (the json_error message) and no other error kind, and no
\* record is produced.  Stated for a cleaned text that is not empty: the
\* empty one, which is not valid JSON either, is the case of C2.
C3_MalformedResponseOnly ==
    (/\ TextReturned
     /\ clean_json_string(response.text) # <<>>
     /\ ~IsObject(Normalized(response.text))) =>
        /\ ErrorsShown = {"json_error"}
        /\ invoice_data = None
        /\ ~SuccessShown

(***************************************************************************)
(* C4                                                                      *)
(***************************************************************************)
\* C4, as claimed: a run started by a click with at least one page image
\* makes exactly one model call, whether the call raises or its text fails
\* to parse; any other run makes none (a run stopped before the upload is
\* read has no page image, clicked or not); calls never exceed clicks.
C4_OneCallPerClick ==
    [][/\ (clicks' = clicks + 1 /\ HasPages') => calls' = calls + 1
       /\ ~(clicks' = clicks + 1 /\ HasPages') => calls' = calls
       /\ calls' <= clicks']_vars

\* C4, amended: a run started by a click with at least one page image makes
\* exactly one model call, whether the call raises or its text fails to
\* parse, unless constructing the client raised, and then it makes none;
\* any other run makes none; calls never exceed clicks.
C4_OneCallUnlessClientFailed ==
    [][/\ (clicks' = clicks + 1 /\ HasPages' /\ ~ClientFailed') =>
              calls' = calls + 1
       /\ ~(clicks' = clicks + 1 /\ HasPages' /\ ~ClientFailed') =>
              calls' = calls
       /\ calls' <= clicks']_vars

\* A second click on the same upload after a request whose text failed to
\* parse, the second call raising.
C4_Witness ==
    /\ Extracted
    /\ calls >= 2
    /\ response.raised
    /\ remembered # None
    /\ remembered.n < calls
    /\ "json_error" \in {remembered.display.messages[n] :
                            n \in 1..Len(remembered.display.messages)}

(***************************************************************************)
(* C5                                                                      *)
(***************************************************************************)
\* C5: a run in which decoding the upload fails (PDF or image path) makes no
\* model call and submits nothing; and whatever is submitted holds every
\* page of the upload, never a part of them.
C5_NoCallOnDecodeFailure ==
    [][/\ (uploaded_file' # None /\ DecodeFails(uploaded_file', poppler')) =>
              (calls' = calls /\ content' = <<>> /\ ~button_shown')
       /\ content' # <<>> =>
              Len(content') = 1 + Len(uploaded_file'.pages)]_vars

\* The button was clicked, and on that run the PDF renderer failed.
C5_Witness ==
    /\ run_end = "decode_failed"
    /\ clicked
    /\ uploaded_file.type = PDF
    /\ uploaded_file.pages # <<>>
    /\ calls >= 1

(***************************************************************************)
(* C6                                                                      *)
(***************************************************************************)
\* C6: when the model call raises, or the constructor of the client before
\* it, the request shows the extraction-service error and nothing else:
\* json.loads is not called, no record exists, no success message, no field,
\* no line-item table, no raw text.
C6_RaiseEndsRequest ==
    ((Extracted /\ response.raised) \/ ClientFailed) =>
        /\ ErrorsShown = {"gemini_error"}
        /\ ~parsed
        /\ invoice_data = None
        /\ ~SuccessShown
        /\ display.col1 = <<>> /\ display.col2 = <<>>
        /\ display.table = None
        /\ display.raw = None

C6_Witness == Extracted /\ response.raised /\ Len(content) > 2

(***************************************************************************)
(* C7                                                                      *)
(***************************************************************************)
\* C7: the content submitted for an upload of N pages is the prompt followed
\* by exactly those N pages in page order (N = 1 for an image file).
C7_ContentIsPromptThenPages ==
    Extracted =>
        /\ content = <<input_prompt>> \o uploaded_file.pages
        /\ uploaded_file.type # PDF => Len(content) = 2

\* A three-page PDF was submitted.
C7_Witness ==
    Extracted /\ uploaded_file.type = PDF /\ Len(uploaded_file.pages) = 3

(***************************************************************************)
(* C8                                                                      *)
(***************************************************************************)
\* C8: for every JSON text T, a response that is T between a leading fence
\* (with or without the language tag) and a trailing fence, with whitespace
\* around them, normalizes to what T normalizes to; and a response that is
\* clean JSON text is returned unchanged by the cleaning.
C8_FenceTransparent ==
    TextReturned =>
        \A t \in ObjectTexts \cup NonObjectTexts :
            /\ \A w \in FenceWrappers :
                   response.text = Wrap(w, t) =>
                       /\ response_text # None
                       /\ json_loads(response_text.text) = Normalized(t)
            /\ response.text = t => response_text = Text(t)

(***************************************************************************)
(* C9                                                                      *)
(***************************************************************************)
\* C9: after a model call that returned, the usage counters shown to the
\* caller are the ones the model returned.
C9_UsageSurfaced == TextReturned => display.usage = response.usage

(***************************************************************************)
(* C10                                                                     *)
(***************************************************************************)
\* C10: two requests with the same upload and the same model response
\* submit the same content and show the same page, whatever came between;
\* the pages submitted are pages of the current upload only, and all of them.
C10_RequestsIndependent ==
    Extracted =>
        /\ \A n \in 2..Len(content) :
               \E m \in 1..Len(uploaded_file.pages) :
                   content[n] = uploaded_file.pages[m]
        /\ \A m \in 1..Len(uploaded_file.pages) :
               \E n \in 2..Len(content) : content[n] = uploaded_file.pages[m]
        /\ (/\ remembered # None
            /\ remembered.doc = uploaded_file
            /\ remembered.outcome = response) =>
               /\ remembered.content = content
               /\ remembered.display = display

\* A request repeats the upload and the response of an earlier request, and
\* that response was a record.
C10_Witness ==
    /\ Extracted
    /\ remembered # None
    /\ remembered.n < calls
    /\ remembered.doc = uploaded_file
    /\ remembered.outcome = response
    /\ Len(uploaded_file.pages) > 1
    /\ display.col1 # <<>>
    /\ display.table # None

====
